---- MODULE Spec2Model ----
(***************************************************************************)
(* A model of log_analyzer.py: the locator of the latest nginx log file,   *)
(* the line parser, the aggregation with its error budget, the report      *)
(* rows, and the control flow of main with the process exit status.        *)
(*                                                                         *)
(* Representation.  A file name is a record of its three parts (the text   *)
(* before the digits, the run of digits, the extension).  A log line is    *)
(* the sequence of its fields as split(" ") returns them, a field being a  *)
(* sequence of characters.  A duration is a whole number of milliseconds   *)
(* (nginx prints $request_time with three decimals); quotients are kept    *)
(* as pairs <<numerator, denominator>>.                                    *)
(***************************************************************************)
EXTENDS Integers, Sequences, FiniteSets, TLC

\* ------------------------------------------------------------------ bounds
MaxFiles == 2      \* longest directory listing
MaxLines == 3      \* most lines read from the log file

\* ------------------------------------------------------------ small helpers
Min(a, b) == IF a < b THEN a ELSE b

RECURSIVE SumSeq(_)
SumSeq(s) == IF s = <<>> THEN 0 ELSE s[1] + SumSeq(Tail(s))

RECURSIVE MaxSeq(_)
MaxSeq(s) == IF Len(s) = 1 THEN s[1]
             ELSE LET m == MaxSeq(Tail(s)) IN IF s[1] >= m THEN s[1] ELSE m

\* All sequences without repetition over S of length at most n.
RECURSIVE InjSeqs(_, _)
InjSeqs(S, n) ==
    IF n = 0 THEN {<<>>}
    ELSE LET shorter == InjSeqs(S, n - 1)
         IN  shorter \cup
             {t \in {Append(s, x) : s \in shorter, x \in S} :
                 \A a, b \in 1..Len(t) : a # b => t[a] # t[b]}

\* ------------------------------------------------------- file names, dates
LogPrefix == "nginx-access-ui.log-"

FileName(prefix, digits, ext) == [prefix |-> prefix, digits |-> digits, ext |-> ext]

\* logfile_name_template: ^nginx-access-ui\.log-(\d{8})(|\.gz)$
Matches(file) ==
    /\ file.prefix = LogPrefix
    /\ Len(file.digits) = 8
    /\ file.ext \in {"", ".gz"}

NoDate == [year |-> 0, month |-> 0, day |-> 0]      \* the "" of line 85

DigitsToDate(d) ==
    [year  |-> d[1] * 1000 + d[2] * 100 + d[3] * 10 + d[4],
     month |-> d[5] * 10 + d[6],
     day   |-> d[7] * 10 + d[8]]

IsLeap(y) == (y % 4 = 0 /\ y % 100 # 0) \/ y % 400 = 0

DaysInMonth(y, m) ==
    IF m = 2 THEN (IF IsLeap(y) THEN 29 ELSE 28)
    ELSE IF m \in {4, 6, 9, 11} THEN 30 ELSE 31

\* datetime.strptime(digits, "%Y%m%d") returns a date; otherwise ValueError.
StrptimeOk(d) ==
    LET t == DigitsToDate(d)
    IN  /\ t.year >= 1
        /\ t.month \in 1..12
        /\ t.day \in 1..DaysInMonth(t.year, t.month)

\* The order of datetime values.
DateKey(t) == t.year * 10000 + t.month * 100 + t.day

DateAfter(a, b) == DateKey(a) > DateKey(b)

\* "report-{}.html".format(log_date.strftime("%Y.%m.%d"))
get_report_name(log_date) ==
    <<"report-",
      log_date.year \div 1000, (log_date.year \div 100) % 10,
      (log_date.year \div 10) % 10, log_date.year % 10, ".",
      log_date.month \div 10, log_date.month % 10, ".",
      log_date.day \div 10, log_date.day % 10,
      ".html">>

\* ------------------------------------------------------------- log lines
DigitChars == <<"0", "1", "2", "3", "4", "5", "6", "7", "8", "9">>

IsDigitChar(c) == \E k \in 1..10 : DigitChars[k] = c

DigitVal(c) == (CHOOSE k \in 1..10 : DigitChars[k] = c) - 1

RECURSIVE Decimal(_)
Decimal(cs) ==
    IF cs = <<>> THEN 0
    ELSE Decimal(SubSeq(cs, 1, Len(cs) - 1)) * 10 + DigitVal(cs[Len(cs)])

\* str.startswith
StartsWith(field, prefix) ==
    /\ Len(field) >= Len(prefix)
    /\ SubSeq(field, 1, Len(prefix)) = prefix

DotPos(field) ==
    IF \E k \in 1..Len(field) : field[k] = "."
    THEN CHOOSE k \in 1..Len(field) :
             field[k] = "." /\ \A j \in 1..(k - 1) : field[j] # "."
    ELSE Len(field) + 1

\* float(text) succeeds; otherwise ValueError.  Over the characters used here
\* (digits, ".", letters, quotes, "-") that is: digits with at most one ".".
FloatOk(field) ==
    /\ \A k \in 1..Len(field) : IsDigitChar(field[k]) \/ field[k] = "."
    /\ Cardinality({k \in 1..Len(field) : field[k] = "."}) <= 1
    /\ \E k \in 1..Len(field) : IsDigitChar(field[k])

\* float(text) in milliseconds, for a text with at most three decimals.
FloatMillis(field) ==
    LET dot  == DotPos(field)
        int  == SubSeq(field, 1, dot - 1)
        frac == SubSeq(field, dot + 1, Len(field))
        pad  == SubSeq(frac \o <<"0", "0", "0">>, 1, 3)
    IN  Decimal(int) * 1000 + Decimal(pad)

\* LogParser._parse_log_string: (url, load_time), or the exception raised.
parse_log_string(logline) ==
    IF Len(logline) < 8
    THEN [raised |-> "IndexError"]
    ELSE IF ~StartsWith(logline[8], <<"/">>)
            /\ ~StartsWith(logline[8], <<"h", "t", "t", "p">>)
    THEN [raised |-> "ValueError"]
    ELSE IF ~FloatOk(logline[Len(logline)])
    THEN [raised |-> "ValueError"]
    ELSE [raised |-> "", url |-> logline[8],
          load_time |-> FloatMillis(logline[Len(logline)])]

\* ------------------------------------------------------------ aggregation
\* request_time_dict is a dict in insertion order: a sequence of
\* [url, times] entries with distinct urls.
HasUrl(dict, url) == \E k \in 1..Len(dict) : dict[k].url = url

\* A slip: the list of the url is replaced, not appended to.
AddRequestMut(dict, url, load_time) ==
    LET d == IF HasUrl(dict, url) THEN dict
             ELSE Append(dict, [url |-> url, times |-> <<>>])
    IN  [k \in 1..Len(d) |->
            IF d[k].url = url
            THEN [d[k] EXCEPT !.times = <<load_time>>]
            ELSE d[k]]

\* Lines 167-169: create the list when the url is new, then append.
AddRequest(dict, url, load_time) ==
    LET d == IF HasUrl(dict, url) THEN dict
             ELSE Append(dict, [url |-> url, times |-> <<>>])
    IN  [k \in 1..Len(d) |->
            IF d[k].url = url
            THEN [d[k] EXCEPT !.times = Append(@, load_time)]
            ELSE d[k]]

\* A slip: the limit itself already counts as exceeded.
BudgetExceededMut(err_count, total_request_count, limit) ==
    100 * err_count >= limit * total_request_count

\* Lines 173-174: 100 * err_count / total_request_count > error_limit, the
\* quotient being exact, for total_request_count > 0.
BudgetExceeded(err_count, total_request_count, limit) ==
    100 * err_count > limit * total_request_count

\* ------------------------------------------------------------ report rows
RECURSIVE InsertAsc(_, _)
InsertAsc(sorted, x) ==
    IF sorted = <<>> \/ x < sorted[1] THEN <<x>> \o sorted
    ELSE <<sorted[1]>> \o InsertAsc(Tail(sorted), x)

RECURSIVE SortAsc(_)
SortAsc(lst) ==
    IF lst = <<>> THEN <<>>
    ELSE InsertAsc(SortAsc(SubSeq(lst, 1, Len(lst) - 1)), lst[Len(lst)])

median(lst) ==
    LET sorted_lst == SortAsc(lst)
        lst_len    == Len(lst)
        index      == (lst_len - 1) \div 2
    IN  IF lst_len % 2 = 1
        THEN <<sorted_lst[index + 1], 1>>
        ELSE <<sorted_lst[index + 1] + sorted_lst[index + 2], 2>>

\* Report._time_sort_func
time_sort_func(item) == SumSeq(item.times)

\* sorted(items, key=_time_sort_func, reverse=True): stable, so that items of
\* equal key keep the order of the dict.
RECURSIVE InsertDesc(_, _)
InsertDesc(sorted, item) ==
    IF sorted = <<>> \/ time_sort_func(sorted[1]) < time_sort_func(item)
    THEN <<item>> \o sorted
    ELSE <<sorted[1]>> \o InsertDesc(Tail(sorted), item)

RECURSIVE SortedByTime(_)
SortedByTime(dict) ==
    IF dict = <<>> THEN <<>>
    ELSE InsertDesc(SortedByTime(SubSeq(dict, 1, Len(dict) - 1)), dict[Len(dict)])

\* One row of lines 127-135.
ReportRow(item, total_request_count, total_request_time) ==
    [url        |-> item.url,
     count      |-> Len(item.times),
     time_sum   |-> SumSeq(item.times),
     time_avg   |-> <<SumSeq(item.times), Len(item.times)>>,
     time_max   |-> MaxSeq(item.times),
     time_med   |-> median(item.times),
     time_perc  |-> <<SumSeq(item.times), total_request_time>>,
     count_perc |-> <<Len(item.times), total_request_count>>]

\* A row raises ZeroDivisionError when one of its divisors is zero.
RowRaises(item, total_request_count, total_request_time) ==
    \/ Len(item.times) = 0
    \/ total_request_time = 0
    \/ total_request_count = 0

\* Line 136: the loop stops once the list has exactly size rows.
SizeReached(request_stats, size) == Len(request_stats) = size

\* The loop of lines 126-137 from item k on.
RECURSIVE CollectRows(_, _, _, _, _, _)
CollectRows(items, k, request_stats, size, total_request_count, total_request_time) ==
    IF k > Len(items) THEN [raised |-> "", rows |-> request_stats]
    ELSE IF RowRaises(items[k], total_request_count, total_request_time)
    THEN [raised |-> "ZeroDivisionError"]
    ELSE LET stats == Append(request_stats,
                        ReportRow(items[k], total_request_count, total_request_time))
         IN  IF SizeReached(stats, size)
             THEN [raised |-> "", rows |-> stats]
             ELSE CollectRows(items, k + 1, stats, size,
                              total_request_count, total_request_time)

generate_report_data(request_time_dict, total_request_count, total_request_time, size) ==
    CollectRows(SortedByTime(request_time_dict), 1, <<>>, size,
                total_request_count, total_request_time)

\* ------------------------------------------------------------------ inputs
Digits20170630 == <<2, 0, 1, 7, 0, 6, 3, 0>>
Digits20210630 == <<2, 0, 2, 1, 0, 6, 3, 0>>
Digits20211330 == <<2, 0, 2, 1, 1, 3, 3, 0>>

\* Names a log directory may hold: two of one date (plain and .gz), a later
\* one, one whose digits are no calendar date, one with another extension.
FileNames ==
    {FileName(LogPrefix, Digits20170630, ""),
     FileName(LogPrefix, Digits20170630, ".gz"),
     FileName(LogPrefix, Digits20210630, ""),
     FileName(LogPrefix, Digits20211330, ""),
     FileName(LogPrefix, Digits20170630, ".bz2")}

Listings == InjSeqs(FileNames, MaxFiles)

ReportNames ==
    {get_report_name(DigitsToDate(f.digits)) :
        f \in {g \in FileNames : Matches(g) /\ StrptimeOk(g.digits)}}

Pad == <<"-">>

LogLine(request, last) ==
    <<Pad, Pad, <<>>, Pad, Pad, Pad, <<"G", "E", "T">>, request, Pad, last>>

\* Lines a log file may hold: three that parse (two urls, one duration of
\* zero) and one for each way in which a line fails to parse.
LogLines ==
    {LogLine(<<"/", "a">>, <<"0", ".", "0", "0", "1">>),
     LogLine(<<"/", "a">>, <<"0", ".", "0", "0", "0">>),
     LogLine(<<"h", "t", "t", "p", ":", "/", "/", "b">>, <<"0", ".", "0", "0", "3">>),
     <<<<"n", "o", "t", "_", "a", "_", "l", "o", "g">>>>,
     LogLine(Pad, <<"2", ".", "4", "5", "0">>),
     LogLine(<<"/", "a">>, <<"d", "c", "7">>)}

ErrorLimits == {0, 50}       \* PARSING_ERROR_LIMIT

ReportSizes == {0, 1, 2}     \* REPORT_SIZE

LOG_DIR == "./log"

\* ------------------------------------------------------------------- state
VARIABLES
    log_dir,              \* the log directory: [exists, listing]
    report_dir_exists,    \* os.path.exists(report.directory)
    reports,              \* report name -> "absent", "partial" or "complete"
    error_limit,          \* config["PARSING_ERROR_LIMIT"]
    report_size,          \* config["REPORT_SIZE"]
    pc,                   \* the statement of main about to run
    idx,                  \* position of the scan in the listing
    last_logfile,         \* get_last_logfile: [is_none, filename, date]
    last_log_date,
    report_name,
    line,                 \* the line read last
    lines_read,
    request_time_dict,
    total_request_count,
    total_request_time,
    err_count,
    report_data,
    outcome,              \* how the run ended, "running" until then
    exception,            \* the exception that left main, "" for none
    exit_status,          \* the status of the process, -1 until it exits
    log_opened,           \* the log file was opened in this run
    template_read,        \* the template was read in this run
    generated,            \* report.generate_report returned in this run
    writes,               \* calls of open(report, "w") in this run
    reports_at_start,     \* reports when this run began
    second_run,           \* this is a run after a first one
    first_outcome         \* the outcome of the first run

envVars    == <<log_dir, error_limit, report_size>>
locVars    == <<idx, last_logfile, last_log_date>>
parseVars  == <<line, lines_read, request_time_dict, total_request_count,
                total_request_time, err_count>>
histVars   == <<reports_at_start, second_run, first_outcome>>
vars == <<log_dir, report_dir_exists, reports, error_limit, report_size, pc, idx,
          last_logfile, last_log_date, report_name, line, lines_read,
          request_time_dict, total_request_count, total_request_time, err_count,
          report_data, outcome, exception, exit_status, log_opened,
          template_read, generated, writes, reports_at_start, second_run,
          first_outcome>>

Logfile(filename, date) == [is_none |-> FALSE, filename |-> filename, date |-> date]

NoneLogfile == [is_none |-> TRUE, filename |-> <<>>, date |-> NoDate]

\* os.path.join(self.log_dir, file["filename"])
PathJoin(dir, file) == <<dir, file>>

\* The values the run's own variables have when main starts.
RunStart ==
    /\ pc = "get_last_logfile"
    /\ idx = 1
    /\ last_logfile = Logfile(<<>>, NoDate)
    /\ last_log_date = NoDate
    /\ report_name = <<>>
    /\ line = <<>>
    /\ lines_read = 0
    /\ request_time_dict = <<>>
    /\ total_request_count = 0
    /\ total_request_time = 0
    /\ err_count = 0
    /\ report_data = <<>>
    /\ outcome = "running"
    /\ exception = ""
    /\ exit_status = -1
    /\ log_opened = FALSE
    /\ template_read = FALSE
    /\ generated = FALSE
    /\ writes = 0

Init ==
    /\ log_dir \in {[exists |-> FALSE, listing |-> <<>>]}
                   \cup {[exists |-> TRUE, listing |-> l] : l \in Listings}
    /\ report_dir_exists \in BOOLEAN
    /\ reports \in [ReportNames -> {"absent", "complete"}]
    /\ ~report_dir_exists => \A n \in ReportNames : reports[n] = "absent"
    /\ error_limit \in ErrorLimits
    /\ report_size \in ReportSizes
    /\ RunStart
    /\ reports_at_start = reports
    /\ second_run = FALSE
    /\ first_outcome = "running"

\* Lines 283-289: SystemExit leaves with its code; KeyboardInterrupt and every
\* Exception are logged and the script runs to its end.
ExitStatus(exc, code) == IF exc = "SystemExit" THEN code ELSE 0

\* main ends: by returning (exc = ""), by sys.exit(code) or by an exception.
Ends(how, exc, code) ==
    /\ pc' = "exit"
    /\ outcome' = how
    /\ exception' = exc
    /\ exit_status' = ExitStatus(exc, code)

Continues(next) ==
    /\ pc' = next
    /\ UNCHANGED <<outcome, exception, exit_status>>

\* ------------------------------------------------------ Log.get_last_logfile
\* Lines 82-83: the directory is missing and the method returns None.
LocateMissingDir ==
    /\ pc = "get_last_logfile"
    /\ ~log_dir.exists
    /\ last_logfile' = NoneLogfile
    /\ Continues("check_logfile")
    /\ UNCHANGED <<envVars, report_dir_exists, reports, idx, last_log_date,
                   report_name, parseVars, report_data, log_opened, template_read,
                   generated, writes, histVars>>

\* Lines 84-85: the directory exists and the scan starts.
LocateStart ==
    /\ pc = "get_last_logfile"
    /\ log_dir.exists
    /\ last_logfile' = Logfile(<<>>, NoDate)
    /\ last_log_date' = NoDate
    /\ idx' = 1
    /\ Continues("scan")
    /\ UNCHANGED <<envVars, report_dir_exists, reports, report_name, parseVars,
                   report_data, log_opened, template_read, generated, writes,
                   histVars>>

\* Lines 72-74: a name the pattern does not match is passed over.
ScanSkip ==
    /\ pc = "scan"
    /\ idx <= Len(log_dir.listing)
    /\ ~Matches(log_dir.listing[idx])
    /\ idx' = idx + 1
    /\ Continues("scan")
    /\ UNCHANGED <<envVars, report_dir_exists, reports, last_logfile, last_log_date,
                   report_name, parseVars, report_data, log_opened, template_read,
                   generated, writes, histVars>>

\* Line 77: strptime raises ValueError, which nothing in main catches.
ScanBadDate ==
    /\ pc = "scan"
    /\ idx <= Len(log_dir.listing)
    /\ Matches(log_dir.listing[idx])
    /\ ~StrptimeOk(log_dir.listing[idx].digits)
    /\ Ends("bad_date", "ValueError", 0)
    /\ UNCHANGED <<envVars, report_dir_exists, reports, locVars, report_name,
                   parseVars, report_data, log_opened, template_read, generated,
                   writes, histVars>>

\* Lines 75-77 and 87-91: a matching name with a date.
ScanFile ==
    /\ pc = "scan"
    /\ idx <= Len(log_dir.listing)
    /\ Matches(log_dir.listing[idx])
    /\ StrptimeOk(log_dir.listing[idx].digits)
    /\ LET file == log_dir.listing[idx]
           date == DigitsToDate(file.digits)
           seen == IF last_log_date = NoDate THEN date ELSE last_log_date
       IN  IF DateAfter(date, seen)
           THEN /\ last_logfile' = Logfile(PathJoin(LOG_DIR, file), date)
                /\ last_log_date' = date
           ELSE /\ last_logfile' = last_logfile
                /\ last_log_date' = seen
    /\ idx' = idx + 1
    /\ Continues("scan")
    /\ UNCHANGED <<envVars, report_dir_exists, reports, report_name, parseVars,
                   report_data, log_opened, template_read, generated, writes,
                   histVars>>

\* Line 92: the listing is exhausted and last_logfile is returned.
ScanDone ==
    /\ pc = "scan"
    /\ idx > Len(log_dir.listing)
    /\ Continues("check_logfile")
    /\ UNCHANGED <<envVars, report_dir_exists, reports, locVars, report_name,
                   parseVars, report_data, log_opened, template_read, generated,
                   writes, histVars>>

\* ------------------------------------------------------------------- main
\* Line 244 on None: last_logfile.filename raises AttributeError.
CheckLogfileNone ==
    /\ pc = "check_logfile"
    /\ last_logfile.is_none
    /\ Ends("none_logfile", "AttributeError", 0)
    /\ UNCHANGED <<envVars, report_dir_exists, reports, locVars, report_name,
                   parseVars, report_data, log_opened, template_read, generated,
                   writes, histVars>>

\* Lines 244-246: no file name, sys.exit().
CheckLogfileEmpty ==
    /\ pc = "check_logfile"
    /\ ~last_logfile.is_none
    /\ last_logfile.filename = <<>>
    /\ Ends("no_logfile", "SystemExit", 0)
    /\ UNCHANGED <<envVars, report_dir_exists, reports, locVars, report_name,
                   parseVars, report_data, log_opened, template_read, generated,
                   writes, histVars>>

\* Lines 247-256: a file was found; the report is named after its date.
CheckLogfileFound ==
    /\ pc = "check_logfile"
    /\ ~last_logfile.is_none
    /\ last_logfile.filename # <<>>
    /\ report_name' = get_report_name(last_logfile.date)
    /\ Continues("check_report")
    /\ UNCHANGED <<envVars, report_dir_exists, reports, locVars, parseVars,
                   report_data, log_opened, template_read, generated, writes,
                   histVars>>

\* A slip: the check for an existing report is left out.
ReportExistsMut(dir_exists, reps, name) == FALSE

\* Line 257: os.path.exists(directory) and name in os.listdir(directory)
ReportExists(dir_exists, reps, name) == dir_exists /\ reps[name] # "absent"

\* Lines 257-259: the report is there, sys.exit().
CheckReportExists ==
    /\ pc = "check_report"
    /\ ReportExists(report_dir_exists, reports, report_name)
    /\ Ends("report_exists", "SystemExit", 0)
    /\ UNCHANGED <<envVars, report_dir_exists, reports, locVars, report_name,
                   parseVars, report_data, log_opened, template_read, generated,
                   writes, histVars>>

\* Lines 156-160 and 53-54: the counters are set and the log file is opened.
OpenLog ==
    /\ pc = "check_report"
    /\ ~ReportExists(report_dir_exists, reports, report_name)
    /\ request_time_dict' = <<>>
    /\ total_request_count' = 0
    /\ total_request_time' = 0
    /\ err_count' = 0
    /\ log_opened' = TRUE
    /\ Continues("parse")
    /\ UNCHANGED <<envVars, report_dir_exists, reports, locVars, report_name, line,
                   lines_read, report_data, template_read, generated, writes,
                   histVars>>

\* Lines 57-59 and 265-266: opening or reading the log file fails with
\* IOError, sys.exit(1).
LogIOError ==
    /\ pc \in {"check_report", "parse"}
    /\ pc = "check_report" => ~ReportExists(report_dir_exists, reports, report_name)
    /\ Ends("log_io_error", "SystemExit", 1)
    /\ UNCHANGED <<envVars, report_dir_exists, reports, locVars, report_name,
                   parseVars, report_data, log_opened, template_read, generated,
                   writes, histVars>>

\* Lines 160-171: one more line is read and folded.
ParseLine ==
    /\ pc = "parse"
    /\ lines_read < MaxLines
    /\ \E l \in LogLines :
        LET parsed == parse_log_string(l)
        IN  /\ line' = l
            /\ lines_read' = lines_read + 1
            /\ IF parsed.raised # ""
               THEN /\ err_count' = err_count + 1
                    /\ UNCHANGED <<request_time_dict, total_request_count,
                                   total_request_time>>
               ELSE /\ request_time_dict' =
                          AddRequest(request_time_dict, parsed.url, parsed.load_time)
                    /\ total_request_count' = total_request_count + 1
                    /\ total_request_time' = total_request_time + parsed.load_time
                    /\ UNCHANGED err_count
    /\ Continues("parse")
    /\ UNCHANGED <<envVars, report_dir_exists, reports, locVars, report_name,
                   report_data, log_opened, template_read, generated, writes,
                   histVars>>

\* Line 173 with no parsed line: ZeroDivisionError.
EndOfLogNoRequests ==
    /\ pc = "parse"
    /\ total_request_count = 0
    /\ Ends("no_requests", "ZeroDivisionError", 0)
    /\ UNCHANGED <<envVars, report_dir_exists, reports, locVars, report_name,
                   parseVars, report_data, log_opened, template_read, generated,
                   writes, histVars>>

\* Lines 173-179: the budget is exceeded, ValueError, which main does not catch.
EndOfLogBudgetExceeded ==
    /\ pc = "parse"
    /\ total_request_count # 0
    /\ BudgetExceeded(err_count, total_request_count, error_limit)
    /\ Ends("budget_exceeded", "ValueError", 0)
    /\ UNCHANGED <<envVars, report_dir_exists, reports, locVars, report_name,
                   parseVars, report_data, log_opened, template_read, generated,
                   writes, histVars>>

\* Lines 173-181: parse_logfile returns.
EndOfLogReturn ==
    /\ pc = "parse"
    /\ total_request_count # 0
    /\ ~BudgetExceeded(err_count, total_request_count, error_limit)
    /\ Continues("generate_report_data")
    /\ UNCHANGED <<envVars, report_dir_exists, reports, locVars, report_name,
                   parseVars, report_data, log_opened, template_read, generated,
                   writes, histVars>>

\* Lines 268-272.
GenerateReportData ==
    /\ pc = "generate_report_data"
    /\ LET result == generate_report_data(request_time_dict, total_request_count,
                                          total_request_time, report_size)
       IN  IF result.raised # ""
           THEN /\ Ends("report_data_error", result.raised, 0)
                /\ UNCHANGED report_data
           ELSE /\ report_data' = result.rows
                /\ Continues("generate_report")
    /\ UNCHANGED <<envVars, report_dir_exists, reports, locVars, report_name,
                   parseVars, log_opened, template_read, generated, writes,
                   histVars>>

\* Lines 112 and 116, 275: the template is read and substituted.
GenerateReport ==
    /\ pc = "generate_report"
    /\ template_read' = TRUE
    /\ generated' = TRUE
    /\ Continues("write_open")
    /\ UNCHANGED <<envVars, report_dir_exists, reports, locVars, report_name,
                   parseVars, report_data, log_opened, writes, histVars>>

\* Lines 113-115 and 276-277: the template cannot be read, sys.exit(1).
TemplateIOError ==
    /\ pc = "generate_report"
    /\ Ends("template_io_error", "SystemExit", 1)
    /\ UNCHANGED <<envVars, report_dir_exists, reports, locVars, report_name,
                   parseVars, report_data, log_opened, template_read, generated,
                   writes, histVars>>

\* Lines 43-46: the directory is made if missing and the file is opened for
\* writing, which creates it or empties it.
WriteOpen ==
    /\ pc = "write_open"
    /\ report_dir_exists' = TRUE
    /\ reports' = [reports EXCEPT ![report_name] = "partial"]
    /\ writes' = writes + 1
    /\ Continues("write_content")
    /\ UNCHANGED <<envVars, locVars, report_name, parseVars, report_data,
                   log_opened, template_read, generated, histVars>>

\* Line 47 and 280: the content is written and main returns.
WriteContent ==
    /\ pc = "write_content"
    /\ reports' = [reports EXCEPT ![report_name] = "complete"]
    /\ Ends("written", "", 0)
    /\ UNCHANGED <<envVars, report_dir_exists, locVars, report_name, parseVars,
                   report_data, log_opened, template_read, generated, writes,
                   histVars>>

\* Lines 44-47: makedirs, open or write fails with OSError, which main does
\* not catch; a file that open created stays as it is.
WriteIOError ==
    /\ pc \in {"write_open", "write_content"}
    /\ Ends("write_io_error", "OSError", 0)
    /\ UNCHANGED <<envVars, report_dir_exists, reports, locVars, report_name,
                   parseVars, report_data, log_opened, template_read, generated,
                   writes, histVars>>

\* Lines 286-287: Ctrl+C at any statement of main.
Interrupt ==
    /\ pc # "exit"
    /\ Ends("interrupted", "KeyboardInterrupt", 0)
    /\ UNCHANGED <<envVars, report_dir_exists, reports, locVars, report_name,
                   parseVars, report_data, log_opened, template_read, generated,
                   writes, histVars>>

\* The program is started once more over the same log directory and
\* configuration, and the report directory as the first run left it.
RunAgain ==
    /\ pc = "exit"
    /\ ~second_run
    /\ second_run' = TRUE
    /\ first_outcome' = outcome
    /\ reports_at_start' = reports
    /\ pc' = "get_last_logfile"
    /\ idx' = 1
    /\ last_logfile' = Logfile(<<>>, NoDate)
    /\ last_log_date' = NoDate
    /\ report_name' = <<>>
    /\ line' = <<>>
    /\ lines_read' = 0
    /\ request_time_dict' = <<>>
    /\ total_request_count' = 0
    /\ total_request_time' = 0
    /\ err_count' = 0
    /\ report_data' = <<>>
    /\ outcome' = "running"
    /\ exception' = ""
    /\ exit_status' = -1
    /\ log_opened' = FALSE
    /\ template_read' = FALSE
    /\ generated' = FALSE
    /\ writes' = 0
    /\ UNCHANGED <<envVars, report_dir_exists, reports>>

Next ==
    \/ LocateMissingDir \/ LocateStart
    \/ ScanSkip \/ ScanBadDate \/ ScanFile \/ ScanDone
    \/ CheckLogfileNone \/ CheckLogfileEmpty \/ CheckLogfileFound
    \/ CheckReportExists \/ OpenLog \/ LogIOError
    \/ ParseLine
    \/ EndOfLogNoRequests \/ EndOfLogBudgetExceeded \/ EndOfLogReturn
    \/ GenerateReportData
    \/ GenerateReport \/ TemplateIOError
    \/ WriteOpen \/ WriteContent \/ WriteIOError
    \/ Interrupt
    \/ RunAgain

Spec == Init /\ [][Next]_vars

\* ================================================================== claims

\* ---- C1 ----------------------------------------------------------------
\* The positions of the listing that hold a matching name with a valid date.
ValidPositions == {k \in 1..Len(log_dir.listing) :
                      /\ Matches(log_dir.listing[k])
                      /\ StrptimeOk(log_dir.listing[k].digits)}

DateAt(k) == DigitsToDate(log_dir.listing[k].digits)

\* The first position that holds the maximal date.
IsLatestPosition(k) ==
    /\ k \in ValidPositions
    /\ \A j \in ValidPositions :
          \/ DateKey(DateAt(j)) < DateKey(DateAt(k))
          \/ DateKey(DateAt(j)) = DateKey(DateAt(k)) /\ j >= k

\* C1: whenever get_last_logfile has returned for a listing with at least one
\* matching name of valid date, it has returned the descriptor (a non-empty
\* filename) of the first file of maximal date, wherever that file stands in
\* the listing, the first and the only matching file included.
C1_LatestLogfileReturned ==
    (pc = "check_logfile" /\ log_dir.exists /\ ValidPositions # {})
        => /\ ~last_logfile.is_none
           /\ last_logfile.filename # <<>>
           /\ \E k \in ValidPositions :
                 /\ IsLatestPosition(k)
                 /\ last_logfile =
                        Logfile(PathJoin(LOG_DIR, log_dir.listing[k]), DateAt(k))

\* ---- C2 ----------------------------------------------------------------
\* C2: a run of main that ended because the parsing error budget was
\* exceeded, or because the log file or the template could not be read, left
\* the process with a non-zero exit status (so that a status of zero comes
\* from none of these runs).
C2_FailureExitsNonZero ==
    (pc = "exit" /\ outcome \in {"budget_exceeded", "log_io_error", "template_io_error"})
        => exit_status # 0

\* ---- C3 ----------------------------------------------------------------
\* C3: with total_count > 0 parsed lines at the end of the stream,
\* parse_logfile has raised the budget error only with
\* 100 * error_count / total_count > limit and has returned only with
\* 100 * error_count / total_count <= limit; and in a run where it raised no
\* report file was written or changed.
C3_BudgetRaisesExactlyAboveLimit ==
    /\ outcome = "budget_exceeded"
          => /\ total_request_count > 0
             /\ 100 * err_count > error_limit * total_request_count
             /\ writes = 0
             /\ reports = reports_at_start
    /\ pc = "generate_report_data"
          => /\ total_request_count > 0
             /\ 100 * err_count <= error_limit * total_request_count
             /\ err_count + total_request_count = lines_read

\* A run in which the budget error was raised with both kinds of lines read.
C3_Witness ==
    /\ outcome = "budget_exceeded"
    /\ total_request_count > 0
    /\ err_count > 0
    /\ error_limit > 0

\* ---- C4 ----------------------------------------------------------------
\* C4: the report file is opened for writing at most once in a run, and only
\* after the log was parsed and the template read and substituted; and a run
\* that ended in an error or was interrupted has left every report file as it
\* was when the run began.
C4_ReportWrittenOnlyAfterFullSuccess ==
    /\ writes <= 1
    /\ writes > 0 => log_opened /\ template_read /\ generated
    /\ (pc = "exit" /\ outcome \notin {"written", "no_logfile", "report_exists"})
          => reports = reports_at_start

\* ---- C5 ----------------------------------------------------------------
\* The report named after the selected logfile was there when the run began.
ReportWasThere ==
    /\ report_name # <<>>
    /\ reports_at_start[report_name] # "absent"

\* C5: in a run that found the report of the selected logfile's date in the
\* report directory, the log file is not read, the template is not read and
\* nothing is written, and the run, unless interrupted, ends by the clean
\* exit with status 0; and a second run after a first one that wrote its
\* report leaves the report directory as it found it.
C5_ExistingReportIsNoOp ==
    /\ ReportWasThere
          => /\ ~log_opened /\ ~template_read /\ writes = 0
             /\ reports = reports_at_start
             /\ (pc = "exit" /\ outcome # "interrupted")
                    => outcome = "report_exists" /\ exit_status = 0
    /\ outcome = "report_exists" => ReportWasThere
    /\ (second_run /\ first_outcome = "written")
          => writes = 0 /\ reports = reports_at_start

\* A second run, after a first that wrote the report, ended by the clean exit.
C5_Witness ==
    /\ second_run
    /\ first_outcome = "written"
    /\ outcome = "report_exists"
    /\ reports[report_name] = "complete"

\* ---- C6 ----------------------------------------------------------------
RECURSIVE SumLens(_)
SumLens(dict) ==
    IF dict = <<>> THEN 0 ELSE Len(dict[1].times) + SumLens(Tail(dict))

RECURSIVE SumTimes(_)
SumTimes(dict) ==
    IF dict = <<>> THEN 0 ELSE SumSeq(dict[1].times) + SumTimes(Tail(dict))

\* The three ways in which a line fails to parse.
FailsToParse(l) ==
    \/ Len(l) < 8
    \/ Len(l) >= 8 /\ ~StartsWith(l[8], <<"/">>)
                   /\ ~StartsWith(l[8], <<"h", "t", "t", "p">>)
    \/ Len(l) >= 8 /\ ~FloatOk(l[Len(l)])

C6_Totals ==
    log_opened
        => /\ total_request_count = SumLens(request_time_dict)
           /\ total_request_time = SumTimes(request_time_dict)
           /\ err_count + total_request_count = lines_read

C6_LineStep ==
    (pc = "parse" /\ lines_read' = lines_read + 1)
        => /\ pc' = "parse"
           /\ IF FailsToParse(line')
              THEN /\ err_count' = err_count + 1
                   /\ request_time_dict' = request_time_dict
                   /\ total_request_count' = total_request_count
                   /\ total_request_time' = total_request_time
              ELSE /\ err_count' = err_count
                   /\ total_request_count' = total_request_count + 1

\* C6: after every line of the fold total_count is the sum of the lengths of
\* the per-url lists, total_duration the sum of the durations in them, and
\* error_count + total_count the number of lines read; a line that fails to
\* parse adds one to error_count, changes nothing else of the aggregation and
\* leaves the fold running.
C6_AggregationInvariant == []C6_Totals /\ [][C6_LineStep]_vars

\* The fold has seen one url twice and has just passed over a failed line.
C6_Witness ==
    /\ pc = "parse"
    /\ err_count = 1
    /\ Len(request_time_dict) = 1
    /\ Len(request_time_dict[1].times) = 2
    /\ FailsToParse(line)

\* ---- C7 ----------------------------------------------------------------
\* The place of entry i of the dict among all entries in non-increasing order
\* of time_sum, equal sums in the order of the dict.
Rank(dict, i) ==
    1 + Cardinality({j \in 1..Len(dict) :
            \/ SumSeq(dict[j].times) > SumSeq(dict[i].times)
            \/ SumSeq(dict[j].times) = SumSeq(dict[i].times) /\ j < i})

\* C7: generate_report_data has returned exactly the first min(N, U) rows of
\* the U url rows in non-increasing order of time_sum (equal sums in order of
\* encounter), for the report size N >= 0.
C7_ReportDataIsTopN ==
    pc = "generate_report"
        => /\ Len(report_data) = Min(report_size, Len(request_time_dict))
           /\ \A k \in 1..Len(report_data) :
                 \E i \in 1..Len(request_time_dict) :
                    /\ Rank(request_time_dict, i) = k
                    /\ report_data[k].url = request_time_dict[i].url
                    /\ report_data[k].time_sum = SumSeq(request_time_dict[i].times)

\* ---- C8 ----------------------------------------------------------------
\* C8: generate_report_data raises for no aggregation state that
\* parse_logfile returns, the state with a total duration of 0 included.
C8_ReportDataNeverRaises ==
    outcome # "report_data_error"

\* ---- C9 ----------------------------------------------------------------
\* C9: a name that matches the pattern and holds no calendar date is passed
\* over: a run over an existing directory, unless interrupted, ends with the
\* scan at the end of the listing and with no error raised by the locator.
C9_InvalidDateIsSkipped ==
    (pc = "exit" /\ log_dir.exists /\ outcome # "interrupted")
        => /\ outcome # "bad_date"
           /\ idx = Len(log_dir.listing) + 1

\* ---- C10 ---------------------------------------------------------------
\* C10: with the log directory missing the run, unless interrupted, ends as
\* it does when no file matches: by sys.exit() with status 0, no exception
\* raised, no log file read and nothing written.
C10_MissingDirIsNoLogfile ==
    (pc = "exit" /\ ~log_dir.exists /\ outcome # "interrupted")
        => /\ outcome = "no_logfile"
           /\ exception = "SystemExit"
           /\ exit_status = 0
           /\ ~log_opened
           /\ writes = 0

====
